---- MODULE Spec2Model ----
\* Model of the BTC price endpoint (app/api/btc-prices/route.js): the in-memory
\* cache, the single-flight slot, the upstream fetch pipeline and the GET handler.
\*
\* Conventions
\*  - Prices are fixed-point numbers in tenths of a dollar (4 is 0.4 USD), so that
\*    Math.round and prices strictly between 0 and 1 are representable.
\*  - The clock is Date.now() in milliseconds counted from process start.
\*    Historical timestamps are written in the frame shifted by two calendar
\*    years, so that in that frame twoYearsAgo.getTime() equals now.getTime().
\*  - One JavaScript job (a macrotask or a promise reaction) is one action.
\*    While promise reactions are queued no new request or timer is served.
\*  - Spec is the endpoint; SpecPick calls the two closest-selection functions
\*    on their own; SpecClient is the price effect of the calculator page
\*    (the MiningCalculator component), with time in hours.
EXTENDS Integers, Naturals, Sequences, FiniteSets, TLC

\* ---------------------------------------------------------------- bounds
NumCallers == 2
MaxTicks == 1
MaxExecs == 2
MaxCandles == 2
MaxPrices == 1
MaxPickLen == 4
MaxHours == 25

\* ---------------------------------------------------------------- constants
CACHE_TTL_SECONDS == 900

\* The page's refresh interval `12 * 60 * 60 * 1000` ms, in hours.
REFRESH_HOURS == 12

Callers == 1..NumCallers

TtlMs == CACHE_TTL_SECONDS * 1000

\* Clock advances between jobs: the TTL, and a second less or more than it.
TickSteps == {TtlMs - 1000, TtlMs, TtlMs + 1000}

\* ---------------------------------------------------------------- JSON values
\* A JSON value where the code expects a number: isNum is typeof v === 'number'.
NotANumber == [isNum |-> FALSE, v |-> 0]
Num(n) == [isNum |-> TRUE, v |-> n]

\* Variant of MathRound: the fraction is dropped.
MathRoundDown(p) == p \div 10

\* Math.round on tenths: floor(x + 0.5).
MathRound(p) == (p + 5) \div 10

\* Math.abs
MathAbs(x) == IF x < 0 THEN -x ELSE x

\* Variant of InvalidPrice: zero is accepted.
InvalidPriceNegative(x) == (~x.isNum) \/ x.v < 0

\* `typeof x !== 'number' || x <= 0`
InvalidPrice(x) == (~x.isNum) \/ x.v <= 0

\* An element of a candle or price list. isArr: Array.isArray(c) with enough
\* elements; t, close: the JSON values at the time and close/price positions.
BadEntry == [isArr |-> FALSE, t |-> NotANumber, close |-> NotANumber]
Entry(t, c) == [isArr |-> TRUE, t |-> t, close |-> c]

\* Variant of PickStep: an element as near as the nearest so far replaces it.
PickStepLastWins(acc, c, target) ==
    IF ~c.isArr THEN acc
    ELSE IF (~c.t.isNum) \/ (~c.close.isNum) THEN acc
    ELSE LET diff == MathAbs(c.t.v - target)
         IN IF acc[2] = -1 \/ diff <= acc[2] THEN <<c.close, diff>> ELSE acc

\* The loop body of pickClosestCandleClose / pickClosestPrice: acc is
\* <<closest, closestDiff>>, closestDiff = -1 standing for Infinity.
PickStep(acc, c, target) ==
    IF ~c.isArr THEN acc
    ELSE IF (~c.t.isNum) \/ (~c.close.isNum) THEN acc
    ELSE LET diff == MathAbs(c.t.v - target)
         IN IF acc[2] = -1 \/ diff < acc[2] THEN <<c.close, diff>> ELSE acc

RECURSIVE PickLoop(_, _, _, _)
PickLoop(list, i, acc, target) ==
    IF i > Len(list) THEN acc
    ELSE PickLoop(list, i + 1, PickStep(acc, list[i], target), target)

\* closest = null is modelled by NotANumber (typeof null !== 'number').
pickClosestCandleClose(candles, targetSec) ==
    PickLoop(candles, 1, <<NotANumber, -1>>, targetSec)[1]

pickClosestPrice(prices, targetMs) ==
    PickLoop(prices, 1, <<NotANumber, -1>>, targetMs)[1]

\* ---------------------------------------------------------------- upstream inputs
\* HTTP statuses the upstream servers answer with; NetworkError stands for a
\* fetch() that rejects instead of resolving to a response.
NetworkError == 0
Statuses == {200, 401, 429, 500}
FetchOutcomes == {NetworkError} \cup Statuses

\* Response.ok
ResOk(status) == status \in 200..299

\* Bodies of the primary price API: parses is FALSE when res.json() rejects,
\* usd is currentJson?.bitcoin?.usd.
CurrentBodies ==
    {[parses |-> FALSE, usd |-> NotANumber]} \cup
    {[parses |-> TRUE, usd |-> u] : u \in {NotANumber, Num(0), Num(650007)}}

\* Sequences over S of length at most n.
SeqsUpTo(S, n) == UNION {[1..k -> S] : k \in 0..n}

\* Entries of the secondary API's prices list, as offsets in ms from the target.
PriceEntries ==
    {BadEntry, Entry(Num(0), Num(0)), Entry(Num(20), Num(16))}

\* Entries of the candle list, as offsets in seconds from the target.
CandleEntries ==
    {BadEntry, Entry(Num(-20), Num(0)), Entry(Num(-10), Num(27)), Entry(Num(10), Num(4))}

\* An entry whose time is given relative to the target, at its absolute time.
Shift(e, target) ==
    IF e.isArr /\ e.t.isNum THEN [e EXCEPT !.t = Num(e.t.v + target)] ELSE e

ShiftAll(list, target) == [i \in DOMAIN list |-> Shift(list[i], target)]

\* Bodies of the secondary historical API: isArray is Array.isArray(histJson?.prices).
HistBodies ==
    {[parses |-> FALSE, isArray |-> FALSE, list |-> <<>>],
     [parses |-> TRUE, isArray |-> FALSE, list |-> <<>>]} \cup
    {[parses |-> TRUE, isArray |-> TRUE, list |-> l] : l \in SeqsUpTo(PriceEntries, MaxPrices)}

\* Bodies of the candle API: isArray is Array.isArray(candles).
CandleBodies ==
    {[parses |-> FALSE, isArray |-> FALSE, list |-> <<>>],
     [parses |-> TRUE, isArray |-> FALSE, list |-> <<>>]} \cup
    {[parses |-> TRUE, isArray |-> TRUE, list |-> l] : l \in SeqsUpTo(CandleEntries, MaxCandles)}

\* ---------------------------------------------------------------- values
\* null
Null == <<>>

\* An Error: its message text and the HTTP status interpolated into it (0: none).
Err(text, status) == [text |-> text, status |-> status]

\* Date.prototype.toISOString of an instant given in ms.
toISOString(ms) == <<"ISO-8601", ms>>

\* ---------------------------------------------------------------- state
VARIABLES
    apiKey,       \* process.env.COINGECKO_API_KEY is set
    clock,        \* Date.now()
    ticks,        \* number of clock advances so far
    cachedValue,  \* Null or [payload, cachedAtMs]
    inFlight,     \* 0 (null) or the id of the promise stored in the slot
    exec,         \* the latest pipeline execution: id, position, outcome
    loc,          \* the local variables of the running fetchFromCoinGecko()
    req,          \* per caller: the GET() invocation it has made
    seen,         \* what the candle API answered in this execution, summarised
    pending,      \* ids of the pipeline executions started and not yet settled
    everFailed,   \* some execution has failed
    pick,         \* one call of a closest-selection function: arguments and result
    client        \* the calculator page: its price effect, timer and price state

routeVars == <<apiKey, clock, ticks, cachedValue, inFlight, exec, loc, req, seen,
               pending, everFailed>>

vars == <<routeVars, pick, client>>

NoLocals ==
    [currentStatus |-> -1, currentPrice |-> NotANumber, targetMs |-> 0, targetSec |-> 0,
     histStatus |-> -1, historicalPrice |-> NotANumber, candleStatus |-> -1,
     calls |-> <<>>, histYield |-> "none"]

\* The candle body of the running execution as the upstream sent it: whether it
\* was a non-empty list, whether any well-formed candle has a positive close, and
\* the close of the first well-formed candle at minimal distance from the target.
NoneSeen == [answered |-> FALSE, nonEmpty |-> FALSE, usable |-> FALSE, nearest |-> NotANumber]

WellFormed(e) == e.isArr /\ e.t.isNum /\ e.close.isNum

Nearest(list, target) ==
    LET wf == {i \in DOMAIN list : WellFormed(list[i])}
        dist(i) == MathAbs(list[i].t.v - target)
        best == {i \in wf : \A j \in wf : dist(i) <= dist(j)}
    IN IF wf = {} THEN NotANumber
       ELSE list[CHOOSE i \in best : \A j \in best : i <= j].close

\* What a readable body of the secondary historical API holds, read off the
\* body itself and remembered until the next upstream response arrives: `prices` missing or no list, an empty list, a list without a
\* well-formed entry, a nearest entry whose price is not positive, or a usable
\* price.
HistYield(b, list, target) ==
    IF ~b.isArray THEN "notList"
    ELSE IF Len(list) = 0 THEN "empty"
    ELSE IF \A i \in DOMAIN list : ~WellFormed(list[i]) THEN "noWellFormed"
    ELSE IF Nearest(list, target).v <= 0 THEN "nonPositive"
    ELSE "usable"

Summary(b, list, target) ==
    [answered |-> TRUE,
     nonEmpty |-> b.parses /\ b.isArray /\ Len(list) > 0,
     usable |-> \E i \in DOMAIN list : WellFormed(list[i]) /\ list[i].close.v > 0,
     nearest |-> Nearest(list, target)]

\* No selection function is being called.
NoPick == [fn |-> "none", list |-> <<>>, target |-> 0, result |-> NotANumber]

\* The page before its effect has run: the initial values of useState, no
\* timer, no request. phase: "unrendered", "mounted", "unmounted"; sinceTimer:
\* hours since setInterval; fired: runs of the interval callback; requests:
\* fetches of /api/btc-prices started; awaiting: those not yet answered.
NoClient ==
    [phase |-> "unrendered", timer |-> FALSE, sinceTimer |-> 0, fired |-> 0,
     requests |-> 0, awaiting |-> 0, isLoading |-> TRUE, priceError |-> FALSE,
     currentBtcPrice |-> Null, historicalBtcPrice |-> Null]

IdleReq ==
    [pc |-> "idle", now |-> 0, awaited |-> 0, started |-> FALSE, slotSeen |-> 0,
     slotAtResume |-> 0, res |-> Null]

Init ==
    /\ apiKey \in BOOLEAN
    /\ clock = 0
    /\ ticks = 0
    /\ cachedValue = Null
    /\ inFlight = 0
    /\ exec = [id |-> 0, pc |-> "none", result |-> Null, error |-> Null]
    /\ loc = NoLocals
    /\ req = [c \in Callers |-> IdleReq]
    /\ seen = NoneSeen
    /\ pending = {}
    /\ everFailed = FALSE
    /\ pick = NoPick
    /\ client = NoClient

\* ---------------------------------------------------------------- event loop
\* Promise reactions are queued: the job queue drains before the event loop
\* serves another request or timer.
MicrotasksPending ==
    \/ exec.pc \in {"returned", "threw", "iifeFulfilled", "iifeRejected"}
    \/ /\ exec.pc \in {"fulfilled", "rejected"}
       /\ \E c \in Callers : req[c].pc = "awaiting" /\ req[c].awaited = exec.id

\* A GET() invocation has returned its response and the response is not yet
\* handed over: a handler's job ends before the event loop serves another event.
ResponsePending == \E c \in Callers : req[c].pc = "done"

\* The event loop is ready to serve a request, a timer or an I/O completion.
Quiescent == ~MicrotasksPending /\ ~ResponsePending

\* ---------------------------------------------------------------- pipeline
\* fetchFromCoinGecko(): each action below is the code that runs between two
\* awaits, taking the awaited outcome as its input.

\* A throw inside fetchFromCoinGecko (rethrown by its catch): the promise rejects.
Throw(e) ==
    /\ exec' = [exec EXCEPT !.pc = "threw", !.error = e]
    /\ loc' = loc

\* The execution stops being outstanding when fetchFromCoinGecko() settles.
PipelineSettles ==
    pending' = IF exec'.pc \in {"returned", "threw"} THEN pending \ {exec.id} ELSE pending

\* The rejection of fetch() itself.
FetchFailed == Err("fetch failed", 0)

\* The rejection of res.json().
JsonFailed == Err("Unexpected token in JSON", 0)

\* The payload of the return statement.
Payload(l) ==
    [currentPriceUsd |-> MathRound(l.currentPrice.v),
     historicalPriceUsd |-> MathRound(l.historicalPrice.v),
     historicalTargetDate |-> toISOString(l.targetMs)]

\* return { ... }
ReturnPayload(l) ==
    /\ exec' = [exec EXCEPT !.pc = "returned", !.result = Payload(l)]
    /\ loc' = l

\* Variants of HistoricalFatal: every failure is fatal; no failure is fatal.
HistoricalFatalAll(status) == TRUE

HistoricalFatalNone(status) == FALSE

\* `else if (histRes.status !== 401)`: the statuses that are surfaced as errors.
HistoricalFatal(status) == status # 401

\* Variant of NeedsCandles: the candle lookup never runs.
NeedsCandlesNever(hp) == FALSE

\* Variant of NeedsCandles: the candle lookup always runs.
NeedsCandlesAlways(hp) == TRUE

\* `if (typeof historicalPrice !== 'number' || historicalPrice <= 0)`
NeedsCandles(hp) == InvalidPrice(hp)

\* From the test of historicalPrice on: either the candle request is issued and
\* the function suspends on it, or the payload is returned.
AfterHistorical(l) ==
    IF NeedsCandles(l.historicalPrice)
    THEN /\ exec' = [exec EXCEPT !.pc = "fetchCandles"]
         /\ loc' = [l EXCEPT !.calls = Append(@, "candles")]
    ELSE ReturnPayload(l)

\* Variant of UsesSecondary: the lookup is attempted without a credential too.
UsesSecondaryAlways(key) == TRUE

\* `if (apiKey)`: whether the secondary historical lookup is attempted.
UsesSecondary(key) == key

\* From the validation of the current price to the next await.
AfterCurrent(usd) ==
    LET l == [loc EXCEPT !.currentPrice = usd,
                         !.targetMs = clock,
                         !.targetSec = clock \div 1000,
                         !.historicalPrice = NotANumber]
    IN IF UsesSecondary(apiKey)
       THEN /\ exec' = [exec EXCEPT !.pc = "fetchHist"]
            /\ loc' = [l EXCEPT !.calls = Append(@, "historical")]
       ELSE AfterHistorical(l)

\* await fetch(currentUrl) settles.
FetchCurrentDone(s) ==
    /\ exec.pc = "fetchCurrent"
    /\ Quiescent
    /\ IF s = NetworkError THEN Throw(FetchFailed)
       ELSE IF ~ResOk(s)
            THEN /\ exec' = [exec EXCEPT !.pc = "threw",
                                         !.error = Err("CoinGecko current price error", s)]
                 /\ loc' = [loc EXCEPT !.currentStatus = s]
       ELSE /\ exec' = [exec EXCEPT !.pc = "jsonCurrent"]
            /\ loc' = [loc EXCEPT !.currentStatus = s]
    /\ PipelineSettles
    /\ UNCHANGED <<apiKey, clock, ticks, cachedValue, inFlight, req, seen, everFailed, pick, client>>

\* await currentRes.json() settles.
JsonCurrentDone(b) ==
    /\ exec.pc = "jsonCurrent"
    /\ Quiescent
    /\ IF ~b.parses THEN Throw(JsonFailed)
       ELSE IF InvalidPrice(b.usd)
            THEN /\ exec' = [exec EXCEPT !.pc = "threw",
                       !.error = Err("Invalid current price payload from CoinGecko", 0)]
                 /\ loc' = [loc EXCEPT !.currentPrice = b.usd]
       ELSE AfterCurrent(b.usd)
    /\ PipelineSettles
    /\ UNCHANGED <<apiKey, clock, ticks, cachedValue, inFlight, req, seen, everFailed, pick, client>>

\* await fetch(historicalUrl) settles.
FetchHistDone(s) ==
    /\ exec.pc = "fetchHist"
    /\ Quiescent
    /\ IF s = NetworkError THEN Throw(FetchFailed)
       ELSE IF ResOk(s)
            THEN /\ exec' = [exec EXCEPT !.pc = "jsonHist"]
                 /\ loc' = [loc EXCEPT !.histStatus = s]
       ELSE IF HistoricalFatal(s)
            THEN /\ exec' = [exec EXCEPT !.pc = "threw",
                                         !.error = Err("CoinGecko historical price error", s)]
                 /\ loc' = [loc EXCEPT !.histStatus = s]
       ELSE AfterHistorical([loc EXCEPT !.histStatus = s])
    /\ PipelineSettles
    /\ UNCHANGED <<apiKey, clock, ticks, cachedValue, inFlight, req, seen, everFailed, pick, client>>

\* await histRes.json() settles.
JsonHistDone(b) ==
    /\ exec.pc = "jsonHist"
    /\ Quiescent
    /\ IF ~b.parses THEN Throw(JsonFailed)
       ELSE LET prices == ShiftAll(b.list, loc.targetMs)
                hp == IF b.isArray /\ Len(prices) > 0
                      THEN pickClosestPrice(prices, loc.targetMs)
                      ELSE NotANumber
            IN AfterHistorical([loc EXCEPT !.historicalPrice = hp,
                                           !.histYield = HistYield(b, prices, loc.targetMs)])
    /\ PipelineSettles
    /\ UNCHANGED <<apiKey, clock, ticks, cachedValue, inFlight, req, seen, everFailed, pick, client>>

\* await fetch(coinbaseUrl) settles.
FetchCandlesDone(s) ==
    /\ exec.pc = "fetchCandles"
    /\ Quiescent
    /\ IF s = NetworkError THEN Throw(FetchFailed)
       ELSE IF ~ResOk(s)
            THEN /\ exec' = [exec EXCEPT !.pc = "threw",
                                         !.error = Err("Coinbase candles error", s)]
                 /\ loc' = [loc EXCEPT !.candleStatus = s, !.histYield = "none"]
       ELSE /\ exec' = [exec EXCEPT !.pc = "jsonCandles"]
            /\ loc' = [loc EXCEPT !.candleStatus = s, !.histYield = "none"]
    /\ PipelineSettles
    /\ UNCHANGED <<apiKey, clock, ticks, cachedValue, inFlight, req, seen, everFailed, pick, client>>

\* await cbRes.json() settles.
JsonCandlesDone(b) ==
    /\ exec.pc = "jsonCandles"
    /\ Quiescent
    /\ LET candles == ShiftAll(b.list, loc.targetSec)
       IN /\ seen' = Summary(b, candles, loc.targetSec)
          /\ IF ~b.parses THEN Throw(JsonFailed)
             ELSE IF (~b.isArray) \/ Len(candles) = 0
                  THEN Throw(Err("No candles returned from Coinbase for historical price", 0))
             ELSE LET hp == pickClosestCandleClose(candles, loc.targetSec)
                  IN IF InvalidPrice(hp)
                     THEN /\ exec' = [exec EXCEPT !.pc = "threw",
                                !.error = Err("Unable to determine historical price from Coinbase candles payload", 0)]
                          /\ loc' = [loc EXCEPT !.historicalPrice = hp]
                     ELSE ReturnPayload([loc EXCEPT !.historicalPrice = hp])
    /\ PipelineSettles
    /\ UNCHANGED <<apiKey, clock, ticks, cachedValue, inFlight, req, everFailed, pick, client>>

\* ---------------------------------------------------------------- responses
\* okJson(payload, cacheStatus)
okJson(payload, cacheStatus) ==
    [status |-> 200, body |-> payload, sMaxAge |-> CACHE_TTL_SECONDS,
     xCache |-> cacheStatus]

\* Variant of errJson: the default status is 500.
errJsonAs500(message) ==
    [status |-> 500, body |-> [error |-> message], sMaxAge |-> 30, xCache |-> "MISS"]

\* errJson(message), with its defaults status = 502 and cacheStatus = 'MISS'
errJson(message) ==
    [status |-> 502, body |-> [error |-> message], sMaxAge |-> 30, xCache |-> "MISS"]

\* `e?.message || 'Server error fetching CoinGecko prices: ...'`
ErrMessage(e) ==
    IF e.text = "" THEN Err("Server error fetching CoinGecko prices", 0) ELSE e

\* ---------------------------------------------------------------- GET
\* Variants of Fresh: the entry expires a second early; the entry never
\* expires; an entry whose age equals the TTL still counts as fresh.
FreshShort(cv, now) == cv # Null /\ now - cv.cachedAtMs < TtlMs - 1000

FreshInclusive(cv, now) == cv # Null /\ now - cv.cachedAtMs <= TtlMs

FreshForever(cv, now) == cv # Null

\* The fresh-cache test of GET().
Fresh(cv, now) == cv # Null /\ now - cv.cachedAtMs < TtlMs

\* Variant of SlotEmpty: the slot is not consulted.
SlotEmptyAlways(slot) == TRUE

\* `if (!inFlight)`
SlotEmpty(slot) == slot = 0

\* The async arrow function is called and runs up to its first await, the
\* fetch of the current price; the promise derived by finally() goes in the slot.
StartRefresh ==
    /\ exec.id < MaxExecs
    /\ exec' = [id |-> exec.id + 1, pc |-> "fetchCurrent", result |-> Null, error |-> Null]
    /\ loc' = [NoLocals EXCEPT !.calls = <<"current">>]
    /\ seen' = NoneSeen
    /\ pending' = pending \cup {exec.id + 1}
    /\ inFlight' = exec.id + 1

\* A request arrives: GET() runs up to its return (a hit) or to `await inFlight`.
Arrive(c) ==
    /\ req[c].pc = "idle"
    /\ \A d \in Callers : d < c => req[d].pc # "idle"
    /\ Quiescent
    /\ LET now == clock
       IN IF Fresh(cachedValue, now)
          THEN /\ req' = [req EXCEPT ![c] = [IdleReq EXCEPT !.pc = "done", !.now = now,
                              !.slotSeen = inFlight,
                              !.res = okJson(cachedValue.payload, "HIT")]]
               /\ UNCHANGED <<exec, loc, inFlight, seen, pending>>
          ELSE /\ IF SlotEmpty(inFlight)
                  THEN StartRefresh
                  ELSE UNCHANGED <<exec, loc, inFlight, seen, pending>>
               /\ req' = [req EXCEPT ![c] = [IdleReq EXCEPT !.pc = "awaiting", !.now = now,
                              !.slotSeen = inFlight,
                              !.started = SlotEmpty(inFlight),
                              !.awaited = inFlight']]
    /\ UNCHANGED <<apiKey, clock, ticks, cachedValue, everFailed, pick, client>>

\* Variants of CacheEntry: stamped with the time the call that started the
\* refresh arrived; only the timestamp of an existing entry is renewed.
CacheEntryAtArrival(payload, now) == [payload |-> payload, cachedAtMs |-> req[1].now]

CacheEntryKeepsPayload(payload, now) ==
    [payload |-> IF cachedValue # Null THEN cachedValue.payload ELSE payload,
     cachedAtMs |-> now]

\* `{ payload, cachedAtMs: Date.now() }`
CacheEntry(payload, now) == [payload |-> payload, cachedAtMs |-> now]

\* The arrow function resumes after `await fetchFromCoinGecko()`: on success it
\* stores the cache entry and returns the payload; on failure the await throws.
\* The frame of fetchFromCoinGecko is gone.
Continuation ==
    /\ exec.pc \in {"returned", "threw"}
    /\ IF exec.pc = "returned"
       THEN /\ cachedValue' = CacheEntry(exec.result, clock)
            /\ exec' = [exec EXCEPT !.pc = "iifeFulfilled"]
       ELSE /\ cachedValue' = cachedValue
            /\ exec' = [exec EXCEPT !.pc = "iifeRejected"]
    /\ loc' = NoLocals
    /\ seen' = NoneSeen
    /\ everFailed' = (everFailed \/ exec.pc = "threw")
    /\ UNCHANGED <<apiKey, clock, ticks, inFlight, req, pending, pick, client>>

\* Variant of ClearedSlot: the callback leaves the slot as it is.
ClearedSlotKeeps(slot) == slot

\* The value the finally() callback leaves in the slot.
ClearedSlot(slot) == 0

\* The finally() callback runs, then the derived promise settles the same way.
Finally ==
    /\ exec.pc \in {"iifeFulfilled", "iifeRejected"}
    /\ inFlight' = ClearedSlot(inFlight)
    /\ exec' = [exec EXCEPT !.pc = IF exec.pc = "iifeFulfilled" THEN "fulfilled" ELSE "rejected"]
    /\ UNCHANGED <<apiKey, clock, ticks, cachedValue, loc, req, seen, pending, everFailed, pick, client>>

\* Variant of Settled: after a failure the stored payload, if any, is served.
SettledServesStale(e) ==
    IF e.pc = "fulfilled" THEN okJson(e.result, "MISS")
    ELSE IF cachedValue # Null THEN okJson(cachedValue.payload, "MISS")
    ELSE errJson(ErrMessage(e.error))

\* Variant of Settled: a payload obtained by awaiting is labelled a hit.
SettledAsHit(e) ==
    IF e.pc = "fulfilled" THEN okJson(e.result, "HIT") ELSE errJson(ErrMessage(e.error))

\* The response GET() builds once `await inFlight` has settled.
Settled(e) ==
    IF e.pc = "fulfilled" THEN okJson(e.result, "MISS") ELSE errJson(ErrMessage(e.error))

\* A caller suspended on `await inFlight` resumes and returns its response.
\* The reactions of one promise run in the order in which they were registered.
Resume(c) ==
    /\ req[c].pc = "awaiting"
    /\ req[c].awaited = exec.id
    /\ \A d \in Callers : d < c => req[d].pc # "awaiting"
    /\ exec.pc \in {"fulfilled", "rejected"}
    /\ req' = [req EXCEPT ![c] = [@ EXCEPT !.pc = "done", !.slotAtResume = inFlight,
                                           !.res = Settled(exec)]]
    /\ UNCHANGED <<apiKey, clock, ticks, cachedValue, inFlight, exec, loc, seen,
                   pending, everFailed, pick, client>>

\* The response is handed over; the caller may call again. Once no invocation
\* holds the settled promise any more, its value is unreachable.
Return(c) ==
    /\ req[c].pc = "done"
    /\ ~MicrotasksPending
    /\ \A d \in Callers : d < c => req[d].pc # "done"
    /\ req' = [req EXCEPT ![c] = IdleReq]
    /\ exec' = IF /\ exec.pc \in {"fulfilled", "rejected"}
                  /\ \A d \in Callers \ {c} :
                        req[d].pc = "idle" \/ req[d].awaited # exec.id
               THEN [exec EXCEPT !.result = Null, !.error = Null]
               ELSE exec
    /\ UNCHANGED <<apiKey, clock, ticks, cachedValue, inFlight, loc, seen,
                   pending, everFailed, pick, client>>

\* Time passes between jobs.
Tick(d) ==
    /\ ticks < MaxTicks
    /\ Quiescent
    /\ clock' = clock + d
    /\ ticks' = ticks + 1
    /\ UNCHANGED <<apiKey, cachedValue, inFlight, exec, loc, req, seen, pending, everFailed, pick, client>>

Next ==
    \/ \E c \in Callers : Arrive(c)
    \/ \E c \in Callers : Resume(c)
    \/ \E c \in Callers : Return(c)
    \/ \E s \in FetchOutcomes : FetchCurrentDone(s)
    \/ \E b \in CurrentBodies : JsonCurrentDone(b)
    \/ \E s \in FetchOutcomes : FetchHistDone(s)
    \/ \E b \in HistBodies : JsonHistDone(b)
    \/ \E s \in FetchOutcomes : FetchCandlesDone(s)
    \/ \E b \in CandleBodies : JsonCandlesDone(b)
    \/ Continuation
    \/ Finally
    \/ \E d \in TickSteps : Tick(d)

Spec == Init /\ [][Next]_vars

\* ---------------------------------------------------------------- the selection functions alone
\* Arguments of one call: a target time and a list whose elements lie at the
\* offsets -5000, -10, +10 and +9999 from it, each with its own price, or are
\* not arrays, or carry a price that is not a number.
PickTargets == {0, 100}

PickOffsets == {-5000, -10, 10, 9999}

PickElems(target) ==
    {Entry(Num(target + o), Num(o + 6000)) : o \in PickOffsets}
        \cup {BadEntry, Entry(Num(target), NotANumber)}

InitPick ==
    /\ apiKey = FALSE
    /\ clock = 0
    /\ ticks = 0
    /\ cachedValue = Null
    /\ inFlight = 0
    /\ exec = [id |-> 0, pc |-> "none", result |-> Null, error |-> Null]
    /\ loc = NoLocals
    /\ req = [c \in Callers |-> IdleReq]
    /\ seen = NoneSeen
    /\ pending = {}
    /\ everFailed = FALSE
    /\ client = NoClient
    /\ \E t \in PickTargets : \E l \in SeqsUpTo(PickElems(t), MaxPickLen) :
          pick = [NoPick EXCEPT !.list = l, !.target = t]

\* pickClosestCandleClose(candles, targetSec) is called and returns.
CallPickClosestCandleClose ==
    /\ pick.fn = "none"
    /\ pick' = [pick EXCEPT !.fn = "pickClosestCandleClose",
                            !.result = pickClosestCandleClose(pick.list, pick.target)]
    /\ UNCHANGED <<routeVars, client>>

\* pickClosestPrice(prices, targetMs) is called and returns.
CallPickClosestPrice ==
    /\ pick.fn = "none"
    /\ pick' = [pick EXCEPT !.fn = "pickClosestPrice",
                            !.result = pickClosestPrice(pick.list, pick.target)]
    /\ UNCHANGED <<routeVars, client>>

NextPick == CallPickClosestCandleClose \/ CallPickClosestPrice

SpecPick == InitPick /\ [][NextPick]_vars

\* ---------------------------------------------------------------- the calculator page
\* What /api/btc-prices may answer the page: a payload with each price 0 or
\* positive, an error body with 502, or no response at all (status 0).
ClientResponses ==
    {[status |-> 200, currentPriceUsd |-> Num(c), historicalPriceUsd |-> Num(h)] :
        c \in {0, 65001}, h \in {0, 2}}
        \cup {[status |-> st, currentPriceUsd |-> NotANumber, historicalPriceUsd |-> NotANumber] :
                st \in {NetworkError, 502}}

InitClient ==
    /\ apiKey = FALSE
    /\ clock = 0
    /\ ticks = 0
    /\ cachedValue = Null
    /\ inFlight = 0
    /\ exec = [id |-> 0, pc |-> "none", result |-> Null, error |-> Null]
    /\ loc = NoLocals
    /\ req = [c \in Callers |-> IdleReq]
    /\ seen = NoneSeen
    /\ pending = {}
    /\ everFailed = FALSE
    /\ pick = NoPick
    /\ client = NoClient

\* fetchPrices() up to `await fetch('/api/btc-prices')`.
fetchPrices(c) ==
    [c EXCEPT !.isLoading = TRUE, !.priceError = FALSE,
              !.requests = @ + 1, !.awaiting = @ + 1]

\* The effect runs once after the first render: fetchPrices(), then setInterval.
Mount ==
    /\ client.phase = "unrendered"
    /\ client' = [fetchPrices(client) EXCEPT !.phase = "mounted", !.timer = TRUE,
                                             !.sinceTimer = 0, !.fired = 0]
    /\ UNCHANGED <<routeVars, pick>>

\* The interval has elapsed once more since the last run of its callback.
TimerDue(c) == c.timer /\ c.sinceTimer >= (c.fired + 1) * REFRESH_HOURS

\* The interval callback runs fetchPrices.
TimerFires ==
    /\ TimerDue(client)
    /\ client' = [fetchPrices(client) EXCEPT !.fired = @ + 1]
    /\ UNCHANGED <<routeVars, pick>>

\* An hour passes; a due timer callback runs first.
HourPasses ==
    /\ client.phase # "unrendered"
    /\ client.sinceTimer < MaxHours
    /\ ~TimerDue(client)
    /\ client' = [client EXCEPT !.sinceTimer = @ + 1]
    /\ UNCHANGED <<routeVars, pick>>

\* Variant of clearInterval: the timer stays registered.
clearIntervalKeeps(timer) == timer

\* clearInterval(interval)
clearInterval(timer) == FALSE

\* The effect's cleanup runs when the page unmounts.
Unmount ==
    /\ client.phase = "mounted"
    /\ client' = [client EXCEPT !.phase = "unmounted", !.timer = clearInterval(@)]
    /\ UNCHANGED <<routeVars, pick>>

\* fetchPrices() from the response to its end: the body is checked, the prices
\* are set or the error is, and the loading flag is cleared.
ResponseArrives(r) ==
    /\ client.awaiting > 0
    /\ LET bad == \/ ~ResOk(r.status)
                  \/ InvalidPrice(r.currentPriceUsd)
                  \/ InvalidPrice(r.historicalPriceUsd)
       IN client' = [client EXCEPT
                        !.awaiting = @ - 1,
                        !.isLoading = FALSE,
                        !.priceError = bad,
                        !.currentBtcPrice = IF bad THEN @ ELSE r.currentPriceUsd.v,
                        !.historicalBtcPrice = IF bad THEN @ ELSE r.historicalPriceUsd.v]
    /\ UNCHANGED <<routeVars, pick>>

NextClient ==
    \/ Mount
    \/ TimerFires
    \/ HourPasses
    \/ Unmount
    \/ \E r \in ClientResponses : ResponseArrives(r)

SpecClient == InitClient /\ [][NextClient]_vars

\* ================================================================ properties
\* A caller that went to the refresh path and has not yet handed its response over.
Missed(c) ==
    \/ req[c].pc = "awaiting"
    \/ req[c].pc = "done" /\ req[c].res.xCache = "MISS"

MissedCallers == {c \in Callers : Missed(c)}

\* The arrival step of caller c.
Arrives(c) == req[c].pc = "idle" /\ req'[c].pc # "idle"

\* The step in which caller c gets the result of the refresh it awaited.
Resumes(c) == req[c].pc = "awaiting" /\ req'[c].pc = "done"

\* The age of the cache entry.
Age == clock - cachedValue.cachedAtMs

Range(f) == {f[i] : i \in DOMAIN f}

\* C1. The callers that missed the cache while one refresh was unsettled all
\* await one and the same execution, exactly one of them started it, no other
\* execution was started for them, and each of them that has its response has
\* that execution's outcome: its payload with 200, or its failure with 502.
C1_SingleFlight ==
    MissedCallers # {} =>
        /\ Cardinality({c \in MissedCallers : req[c].started}) <= 1
        /\ (\E c \in MissedCallers : req[c].pc = "awaiting") =>
              Cardinality({c \in MissedCallers : req[c].started}) = 1
        /\ \A c \in MissedCallers :
              /\ req[c].awaited = exec.id
              /\ req[c].started => req[c].slotSeen = 0
              /\ (~req[c].started) => req[c].slotSeen = exec.id
              /\ req[c].pc = "done" =>
                    /\ exec.pc \in {"fulfilled", "rejected"}
                    /\ exec.pc = "fulfilled" =>
                          req[c].res.status = 200 /\ req[c].res.body = exec.result
                    /\ exec.pc = "rejected" =>
                          req[c].res.status = 502 /\ req[c].res.body = [error |-> exec.error]
        /\ \A c, d \in MissedCallers :
              req[c].pc = "done" /\ req[d].pc = "done" => req[c].res = req[d].res

\* Two coalesced callers hold the same successful response of one execution.
C1_Witness ==
    \E c, d \in Callers :
        /\ c # d
        /\ req[c].pc = "done" /\ req[d].pc = "done"
        /\ req[c].started /\ ~req[d].started
        /\ req[c].res.status = 200 /\ req[d].res = req[c].res
        /\ req[c].res.xCache = "MISS"

\* C2. At most one pipeline execution is outstanding in every reachable state.
C2_AtMostOneOutstanding == Cardinality(pending) <= 1

\* A second execution is outstanding after the first one has settled, with two
\* callers awaiting it.
C2_Witness ==
    /\ pending = {2}
    /\ Cardinality({c \in Callers : req[c].pc = "awaiting"}) >= 2

\* C3. A call made while the cache entry's age is less than the TTL returns 200
\* with exactly the cached payload, starts no execution and leaves the cache
\* entry and the in-flight slot unchanged.
C3_CacheHit ==
    [][\A c \in Callers :
          (Arrives(c) /\ cachedValue # Null /\ Age < CACHE_TTL_SECONDS * 1000) =>
              /\ req'[c].pc = "done"
              /\ req'[c].res.status = 200
              /\ req'[c].res.body = cachedValue.payload
              /\ exec' = exec
              /\ pending' = pending
              /\ cachedValue' = cachedValue
              /\ inFlight' = inFlight]_vars

\* A hit served one second before the entry expires.
C3_Witness ==
    \E c \in Callers :
        /\ req[c].pc = "done"
        /\ req[c].res.xCache = "HIT"
        /\ cachedValue # Null
        /\ clock - cachedValue.cachedAtMs = (CACHE_TTL_SECONDS - 1) * 1000
        /\ req[c].res.body = cachedValue.payload

\* C4. A call made when the cache entry is older than the TTL and no refresh is
\* in flight starts exactly one new execution; a call made while a refresh is
\* in flight starts none.
C4_Expiry ==
    [][\A c \in Callers :
          (Arrives(c) /\ cachedValue # Null /\ Age > CACHE_TTL_SECONDS * 1000) =>
              /\ inFlight = 0 =>
                    /\ exec'.id = exec.id + 1
                    /\ pending' = pending \cup {exec'.id}
                    /\ Cardinality(pending') = Cardinality(pending) + 1
                    /\ inFlight' = exec'.id
                    /\ req'[c].awaited = exec'.id
              /\ inFlight # 0 =>
                    /\ exec' = exec
                    /\ pending' = pending
                    /\ inFlight' = inFlight
                    /\ req'[c].awaited = inFlight]_vars

\* The entry is a second past its TTL, the second execution is running, and a
\* second caller has joined the one that started it.
C4_Witness ==
    /\ cachedValue # Null
    /\ clock - cachedValue.cachedAtMs = (CACHE_TTL_SECONDS + 1) * 1000
    /\ exec.id = 2 /\ pending = {2}
    /\ \E c, d \in Callers :
          /\ req[c].pc = "awaiting" /\ req[c].started /\ req[c].awaited = 2
          /\ req[d].pc = "awaiting" /\ ~req[d].started /\ req[d].awaited = 2

\* The positions at which fetchFromCoinGecko() is suspended on an await.
Suspended ==
    {"fetchCurrent", "jsonCurrent", "fetchHist", "jsonHist", "fetchCandles", "jsonCandles"}

\* C5. The slot holds the execution's promise from the moment the execution
\* starts; nothing clears it while the execution is pending; whenever the event
\* loop can serve another event the slot is non-empty exactly if an execution is
\* pending; and every caller that awaited the refresh, successful or failed,
\* finds the slot empty when it gets its result.
C5_SlotLifetime ==
    /\ pending # {} => inFlight = exec.id /\ exec.pc \in Suspended
    /\ Quiescent => (inFlight # 0 <=> pending # {})
    /\ inFlight # 0 => inFlight = exec.id /\ exec.pc \notin {"fulfilled", "rejected"}
    /\ \A c \in Callers :
          req[c].pc = "done" /\ req[c].res.xCache = "MISS" => req[c].slotAtResume = 0

\* A caller has the failure of the refresh it awaited and found the slot empty.
C5_Witness ==
    \E c \in Callers :
        /\ req[c].pc = "done"
        /\ req[c].res.status = 502
        /\ req[c].slotAtResume = 0
        /\ inFlight = 0
        /\ exec.pc = "rejected"

NoDuplicates(q) == \A i, j \in DOMAIN q : i # j => q[i] # q[j]

\* C6. When an execution fails, no upstream call of it is repeated and no other
\* execution is started for its callers, and every caller that awaited it gets
\* status 502 with the body { error: <message of the failure> }.
C6_FailureSurfaced ==
    /\ NoDuplicates(loc.calls)
    /\ exec.pc \in {"threw", "iifeRejected", "rejected"} =>
          \A c \in MissedCallers :
              /\ req[c].awaited = exec.id
              /\ req[c].pc = "done" =>
                    /\ req[c].res.status = 502
                    /\ req[c].res.body = [error |-> exec.error]
                    /\ exec.error # Null
                    /\ exec.result = Null

\* The caller that started a failed refresh and a caller that joined it both
\* hold the 502 response carrying the failure's message.
C6_Witness ==
    \E c, d \in Callers :
        /\ req[c].pc = "done" /\ req[c].started
        /\ req[d].pc = "done" /\ ~req[d].started
        /\ req[c].res.status = 502 /\ req[d].res.status = 502
        /\ req[c].res.body = [error |-> Err("CoinGecko current price error", 500)]
        /\ req[d].res.body = req[c].res.body

\* C7. After an execution has failed, a call that misses the cache starts a new
\* execution and awaits that one, not the failed one; and when an execution that
\* follows a failed one succeeds, its callers get 200 with its payload and the
\* cache entry holds that payload.
C7_UsableAfterFailure ==
    [][\A c \in Callers :
          /\ (Arrives(c) /\ everFailed /\ req'[c].pc = "awaiting"
                /\ exec.pc = "rejected") =>
                /\ exec'.id = exec.id + 1
                /\ exec'.pc = "fetchCurrent"
                /\ exec'.error = Null
                /\ req'[c].awaited = exec'.id
          /\ (Resumes(c) /\ everFailed /\ exec.pc = "fulfilled") =>
                /\ req'[c].res.status = 200
                /\ req'[c].res.body = exec.result
                /\ cachedValue # Null
                /\ cachedValue.payload = exec.result]_vars

\* The first execution failed, the second succeeded: its caller has a 200 and
\* the cache holds the payload.
C7_Witness ==
    /\ everFailed /\ exec.id = 2 /\ exec.pc = "fulfilled"
    /\ cachedValue # Null
    /\ \E c \in Callers :
          /\ req[c].pc = "done"
          /\ req[c].awaited = 2
          /\ req[c].res.status = 200
          /\ req[c].res.body = cachedValue.payload

\* C8. With a credential, a 401 from the secondary lookup does not fail the
\* execution: the candle API is called next, and if it answers with a list whose
\* nearest well-formed candle has a positive close, the execution returns a
\* payload whose historicalPriceUsd is that close, rounded.
C8_Unauthorized ==
    (apiKey /\ loc.histStatus = 401) =>
        /\ exec.pc \in {"fetchCandles", "jsonCandles", "returned", "threw"}
        /\ loc.calls = <<"current", "historical", "candles">>
        /\ exec.pc = "threw" => (loc.candleStatus # 200 \/ seen.answered)
        /\ (seen.answered /\ seen.nonEmpty /\ ~InvalidPrice(seen.nearest)) =>
              exec.pc = "returned"
        /\ exec.pc = "returned" =>
              /\ seen.answered /\ seen.nonEmpty /\ ~InvalidPrice(seen.nearest)
              /\ exec.result.historicalPriceUsd = MathRound(seen.nearest.v)

\* After a 401 the execution has returned the close of the nearest candle.
C8_Witness ==
    /\ apiKey
    /\ loc.histStatus = 401
    /\ exec.pc = "returned"
    /\ seen.nearest = Num(27)
    /\ exec.result.historicalPriceUsd = 3

\* C9. With a credential, a non-success status other than 401 from the secondary
\* lookup fails the execution with the secondary API's error, and the candle API
\* is not called in that execution.
C9_SecondaryFatal ==
    (apiKey /\ loc.histStatus # -1 /\ ~ResOk(loc.histStatus) /\ loc.histStatus # 401) =>
        /\ exec.pc = "threw"
        /\ exec.error = Err("CoinGecko historical price error", loc.histStatus)
        /\ exec.result = Null
        /\ loc.calls = <<"current", "historical">>
        /\ ~seen.answered

\* The secondary lookup answered 500 and the execution has thrown.
C9_Witness ==
    /\ apiKey
    /\ loc.histStatus = 500
    /\ exec.pc = "threw"

\* The candle request of the running execution has been answered to the end:
\* the function is past its last await.
CandlePathDone == "candles" \in Range(loc.calls) /\ exec.pc \in {"returned", "threw"}

\* C10. Without a credential the secondary endpoint is never called and a
\* returned payload's historical price is the candle path's; and whenever the
\* candle path yields no usable candle (non-success status, empty or non-list
\* body, no well-formed candle with a positive close) the execution fails and
\* produces no payload.
C10_CandlePath ==
    /\ ~apiKey =>
          /\ "historical" \notin Range(loc.calls)
          /\ loc.histStatus = -1
          /\ exec.pc = "returned" =>
                /\ loc.calls = <<"current", "candles">>
                /\ exec.result.historicalPriceUsd = MathRound(seen.nearest.v)
    /\ (CandlePathDone /\
          (~ResOk(loc.candleStatus) \/ ~seen.nonEmpty \/ ~seen.usable)) =>
          /\ exec.pc = "threw"
          /\ exec.result = Null
          /\ exec.error # Null

\* Without a credential the candle API answered a list in which no candle is
\* usable, and the execution has thrown.
C10_Witness ==
    /\ ~apiKey
    /\ exec.pc = "threw"
    /\ loc.calls = <<"current", "candles">>
    /\ seen.answered /\ seen.nonEmpty /\ ~seen.usable

\* ---------------------------------------------------------------- C11
\* The execution is past the check of the current price and that response was
\* not a success, could not be read, or carried no number greater than zero.
CurrentFailed ==
    /\ loc.calls # <<>>
    /\ exec.pc \notin {"none", "fetchCurrent", "jsonCurrent"}
    /\ \/ loc.currentStatus \notin 200..299
       \/ ~loc.currentPrice.isNum
       \/ loc.currentPrice.v <= 0

C11_State ==
    /\ loc.calls # <<>> => Head(loc.calls) = "current"
    /\ CurrentFailed =>
          /\ exec.pc = "threw"
          /\ exec.error # Null
          /\ exec.result = Null
          /\ loc.calls = <<"current">>
          /\ loc.histStatus = -1 /\ loc.candleStatus = -1
          /\ ~seen.answered

C11_Step == CurrentFailed => cachedValue' = cachedValue

\* C11. The first upstream call of an execution is the current-price call; if
\* its response is not a success, cannot be read, or its price is not a number
\* greater than zero, the execution fails having issued no historical call
\* (secondary or candle), and the step that ends it leaves the cache as it was.
C11_CurrentFirst == []C11_State /\ [][C11_Step]_vars

\* The current-price call answered 200 with the price 0 while an earlier
\* payload is cached: the execution has thrown after that single call.
C11_Witness ==
    /\ exec.pc = "threw"
    /\ loc.currentStatus = 200
    /\ loc.currentPrice = Num(0)
    /\ loc.calls = <<"current">>
    /\ cachedValue # Null

\* ---------------------------------------------------------------- C12
\* C12. Either selection function returns the price of the first element, in
\* the order of the list as given, among the well-formed elements whose
\* distance in time from the target is least: of two elements equally near the
\* earlier one wins. With no well-formed element it returns no price.
C12_ClosestFirst ==
    pick.fn # "none" =>
        LET list == pick.list
            wf == {i \in DOMAIN list :
                     list[i].isArr /\ list[i].t.isNum /\ list[i].close.isNum}
            dist(i) == IF list[i].t.v >= pick.target
                       THEN list[i].t.v - pick.target
                       ELSE pick.target - list[i].t.v
        IN IF wf = {} THEN pick.result = NotANumber
           ELSE \E i \in wf :
                   /\ \A j \in wf : dist(i) <= dist(j)
                   /\ \A j \in wf : j < i => dist(j) > dist(i)
                   /\ pick.result = list[i].close

\* The list at the offsets -5000, -10, +10, +9999 gave the price at -10.
C12_Witness ==
    /\ pick.fn = "pickClosestPrice"
    /\ pick.list = [i \in 1..4 |->
                       Entry(Num(pick.target + <<-5000, -10, 10, 9999>>[i]),
                             Num(<<-5000, -10, 10, 9999>>[i] + 6000))]
    /\ pick.result = Num(5990)

\* ---------------------------------------------------------------- C13
\* The payloads that exist in a state: the one the pipeline has returned, the
\* one in the cache, and those in 200 responses.
PayloadsHeld ==
    (IF exec.result # Null THEN {exec.result} ELSE {})
        \cup (IF cachedValue # Null THEN {cachedValue.payload} ELSE {})
        \cup {req[c].res.body : c \in {d \in Callers : req[d].pc = "done" /\ req[d].res.status = 200}}

\* C13. Every payload returned by the pipeline, stored in the cache or sent in
\* a 200 response has a current price and a historical price that are integers
\* of at least 1.
C13_PricesAtLeastOne ==
    \A p \in PayloadsHeld :
        /\ p.currentPriceUsd \in Nat /\ p.currentPriceUsd >= 1
        /\ p.historicalPriceUsd \in Nat /\ p.historicalPriceUsd >= 1

\* ---------------------------------------------------------------- C14
\* r is the integer nearest to the price p given in tenths.
IsNearestInteger(r, p) == r \in Int /\ 10 * r - 5 <= p /\ p < 10 * r + 5

\* C14. The payload a successful execution returns carries the upstream current
\* price and the selected historical price, each rounded to the nearest
\* integer, and the target instant; the prices are changed in no other way.
C14_Rounded ==
    exec.pc = "returned" =>
        /\ IsNearestInteger(exec.result.currentPriceUsd, loc.currentPrice.v)
        /\ IsNearestInteger(exec.result.historicalPriceUsd, loc.historicalPrice.v)
        /\ "candles" \in Range(loc.calls) => loc.historicalPrice = seen.nearest
        /\ exec.result.historicalTargetDate = toISOString(loc.targetMs)
        /\ DOMAIN exec.result =
              {"currentPriceUsd", "historicalPriceUsd", "historicalTargetDate"}

\* The current price 65000.7 and the secondary historical price 1.6 came back
\* as 65001 and 2.
C14_Witness ==
    /\ exec.pc = "returned"
    /\ loc.currentPrice = Num(650007) /\ exec.result.currentPriceUsd = 65001
    /\ loc.calls = <<"current", "historical">>
    /\ loc.historicalPrice = Num(16) /\ exec.result.historicalPriceUsd = 2

\* ---------------------------------------------------------------- C15
\* C15. Every response is labelled HIT or MISS. It is labelled HIT exactly when
\* it was built from a fresh cache entry without awaiting a refresh; every
\* response built after awaiting a refresh, for the caller that started it and
\* for those that joined it, and every 502 response is labelled MISS.
C15_CacheLabel ==
    \A c \in Callers :
        req[c].pc = "done" =>
            /\ req[c].res.xCache \in {"HIT", "MISS"}
            /\ req[c].res.xCache = "HIT" <=> req[c].awaited = 0
            /\ req[c].res.xCache = "HIT" =>
                  /\ req[c].res.status = 200
                  /\ cachedValue # Null
                  /\ req[c].now - cachedValue.cachedAtMs < CACHE_TTL_SECONDS * 1000
                  /\ req[c].res.body = cachedValue.payload
            /\ req[c].awaited # 0 => req[c].res.xCache = "MISS"
            /\ req[c].res.status = 502 => req[c].res.xCache = "MISS"
            /\ req[c].res.status \in {200, 502}

\* The caller that started a refresh and one that joined it both hold its
\* payload labelled MISS.
C15_Witness ==
    \E c, d \in Callers :
        /\ req[c].pc = "done" /\ req[c].started /\ req[c].awaited # 0
        /\ req[d].pc = "done" /\ ~req[d].started /\ req[d].awaited # 0
        /\ req[c].res.status = 200 /\ req[d].res.status = 200
        /\ req[c].res.xCache = "MISS" /\ req[d].res.xCache = "MISS"
        /\ cachedValue # Null /\ req[d].res.body = cachedValue.payload

\* ---------------------------------------------------------------- C16
\* The cache is empty or holds one whole entry, and every 200 response in hand
\* carries that entry's payload.
C16_State ==
    /\ cachedValue # Null =>
          /\ DOMAIN cachedValue = {"payload", "cachedAtMs"}
          /\ DOMAIN cachedValue.payload =
                {"currentPriceUsd", "historicalPriceUsd", "historicalTargetDate"}
          /\ cachedValue.cachedAtMs \in 0..clock
          /\ cachedValue.payload.historicalTargetDate[2] <= cachedValue.cachedAtMs
    /\ \A c \in Callers :
          (req[c].pc = "done" /\ req[c].res.status = 200) =>
              cachedValue # Null /\ req[c].res.body = cachedValue.payload

\* The cache changes only in the step in which a successful execution stores
\* its own payload together with the time of that step.
C16_Step ==
    cachedValue' # cachedValue =>
        /\ exec.pc = "returned"
        /\ exec.result = Payload(loc)
        /\ cachedValue' = [payload |-> exec.result, cachedAtMs |-> clock]

\* C16. The cache is replaced atomically: it is always empty or one complete
\* (payload, timestamp) pair that one successful execution wrote in one step, and
\* no caller returns a payload mixed from two executions or paired with the
\* timestamp of another.
C16_AtomicReplace == []C16_State /\ [][C16_Step]_vars

\* The second successful execution has just replaced the entry of the first.
C16_Witness ==
    /\ exec.id = 2
    /\ exec.pc = "iifeFulfilled"
    /\ ~everFailed
    /\ clock > 0
    /\ cachedValue = [payload |-> exec.result, cachedAtMs |-> clock]

\* ---------------------------------------------------------------- C17
\* C17 as stated. An execution that returns a payload has made exactly three
\* upstream calls: current price, secondary historical, candle.
C17_ExactlyThreeCalls ==
    exec.pc = "returned" => loc.calls = <<"current", "historical", "candles">>

\* The upstream calls of one execution: at most three, in a fixed order, the
\* secondary one only with a credential, the candle one only while no usable
\* historical price is at hand; a payload takes two or three of them.
C17_State ==
    /\ loc.calls \in {<<>>, <<"current">>, <<"current", "historical">>,
                      <<"current", "candles">>,
                      <<"current", "historical", "candles">>}
    /\ "historical" \in Range(loc.calls) => apiKey
    /\ (apiKey /\ Len(loc.calls) >= 2) => loc.calls[2] = "historical"
    /\ exec.pc \in {"fetchCandles", "jsonCandles"} =>
          (~loc.historicalPrice.isNum) \/ loc.historicalPrice.v <= 0
    /\ exec.pc = "returned" => Len(loc.calls) \in {2, 3}
    /\ exec.pc \in Suspended =>
          loc.calls[Len(loc.calls)] =
              CASE exec.pc \in {"fetchCurrent", "jsonCurrent"} -> "current"
                [] exec.pc \in {"fetchHist", "jsonHist"} -> "historical"
                [] exec.pc \in {"fetchCandles", "jsonCandles"} -> "candles"

\* A call arrives only while no execution runs or the execution is suspended
\* on an upstream response; its freshness check, its look at the slot and the
\* filling of the slot all happen in that one step.
C17_Step ==
    \A c \in Callers :
        Arrives(c) =>
            /\ exec.pc \in Suspended \cup {"none", "fulfilled", "rejected"}
            /\ req'[c].now = clock
            /\ req'[c].pc = "done" <=>
                  (cachedValue # Null /\ Age < CACHE_TTL_SECONDS * 1000)
            /\ req'[c].pc = "done" => (exec' = exec /\ inFlight' = inFlight)
            /\ req'[c].pc = "awaiting" =>
                  /\ inFlight' # 0 /\ req'[c].awaited = inFlight'
                  /\ inFlight # 0 => (inFlight' = inFlight /\ exec' = exec)
                  /\ inFlight = 0 =>
                        /\ exec'.id = exec.id + 1 /\ inFlight' = exec'.id
                        /\ exec'.pc = "fetchCurrent"
                        /\ loc'.calls = <<"current">>

\* C17 (amended). Other calls interleave with an execution only while it awaits
\* an upstream response; one execution makes at most three upstream calls, a
\* successful one two or three; and a call's freshness check, in-flight check
\* and assignment of the slot are one uninterrupted step.
C17_Interleaving == []C17_State /\ [][C17_Step]_vars

\* A payload was obtained with two upstream calls while a second caller, which
\* arrived during the execution, awaits it.
C17_Witness ==
    /\ exec.pc = "returned"
    /\ loc.calls = <<"current", "candles">>
    /\ \E c \in Callers : req[c].pc = "awaiting" /\ ~req[c].started

\* ---------------------------------------------------------------- C18
\* While mounted the page has started one request at mount and one per elapsed
\* interval; the latest of these is started at the instant the interval ends.
C18_State ==
    /\ client.phase = "unrendered" => client.requests = 0
    /\ client.phase = "mounted" =>
          /\ client.timer
          /\ client.requests = 1 + client.fired
          /\ \/ client.fired = client.sinceTimer \div REFRESH_HOURS
             \/ /\ client.fired + 1 = client.sinceTimer \div REFRESH_HOURS
                /\ client.sinceTimer % REFRESH_HOURS = 0
    /\ client.phase = "unmounted" => ~client.timer

\* A request starts only at mount or when an interval ends, and none starts
\* after unmount.
C18_Step ==
    /\ client'.requests # client.requests =>
          /\ client'.requests = client.requests + 1
          /\ \/ client.phase = "unrendered" /\ client'.phase = "mounted"
             \/ /\ client.phase = "mounted"
                /\ client.sinceTimer = (client.fired + 1) * REFRESH_HOURS
    /\ client.phase = "unmounted" =>
          client'.requests = client.requests /\ client'.phase = "unmounted"

\* C18. The page requests /api/btc-prices once when it mounts and once per
\* elapsed 12-hour interval while it stays mounted, and its interval timer
\* starts no request after unmount.
C18_Refresh == []C18_State /\ [][C18_Step]_vars

\* Unmounted after the first interval: the second interval has ended and no
\* third request was started.
C18_Witness ==
    /\ client.phase = "unmounted"
    /\ client.sinceTimer >= 2 * REFRESH_HOURS
    /\ client.requests = 2

\* ---------------------------------------------------------------- C19
\* C19. A call is a cache hit if and only if an entry exists and its age is
\* strictly less than the TTL; a call made when the age equals the TTL is a
\* miss and takes the refresh path.
C19_StrictFreshness ==
    [][\A c \in Callers :
          Arrives(c) =>
              /\ (req'[c].pc = "done" /\ req'[c].res.xCache = "HIT")
                    <=> (cachedValue # Null /\ Age < CACHE_TTL_SECONDS * 1000)
              /\ (cachedValue # Null /\ Age = CACHE_TTL_SECONDS * 1000) =>
                    /\ req'[c].pc = "awaiting"
                    /\ req'[c].awaited = inFlight' /\ inFlight' # 0
              /\ req'[c].pc \in {"done", "awaiting"}]_vars

\* A caller that arrived when the entry's age was exactly the TTL awaits a refresh.
C19_Witness ==
    \E c \in Callers :
        /\ req[c].pc = "awaiting"
        /\ cachedValue # Null
        /\ req[c].now - cachedValue.cachedAtMs = CACHE_TTL_SECONDS * 1000

\* ---------------------------------------------------------------- C20
\* The caller that started a refresh holds its payload: the entry in the cache
\* is that payload, stamped with the present time and not with the caller's
\* arrival time unless the two coincide.
C20_State ==
    \A c \in Callers :
        (req[c].pc = "done" /\ req[c].started /\ req[c].res.status = 200) =>
            /\ cachedValue # Null
            /\ cachedValue.payload = req[c].res.body
            /\ cachedValue.cachedAtMs = clock
            /\ cachedValue.cachedAtMs >= req[c].now

\* The step that ends a successful execution stores its payload with the time
\* of that step; a call arriving less than the TTL after that time is a hit.
C20_Step ==
    /\ (exec.pc = "returned" /\ exec'.pc # "returned") =>
          /\ cachedValue'.payload = exec.result
          /\ cachedValue'.cachedAtMs = clock'
          /\ clock' = clock
    /\ \A c \in Callers :
          (Arrives(c) /\ cachedValue # Null
              /\ clock < cachedValue.cachedAtMs + CACHE_TTL_SECONDS * 1000) =>
                  req'[c].res = okJson(cachedValue.payload, "HIT")

\* C20. A successful execution leaves in the cache its payload together with
\* the clock value at its completion, not the clock value at which the call
\* that triggered it arrived; the entry is served as a hit for the TTL counted
\* from that completion.
C20_StampedAtCompletion == []C20_State /\ [][C20_Step]_vars

\* The triggering call arrived at time 0, the refresh completed a full TTL or
\* more later, and the entry carries the later time.
C20_Witness ==
    \E c \in Callers :
        /\ req[c].pc = "done" /\ req[c].started /\ req[c].res.status = 200
        /\ req[c].now = 0
        /\ cachedValue.cachedAtMs >= CACHE_TTL_SECONDS * 1000
        /\ cachedValue.cachedAtMs = clock

\* ---------------------------------------------------------------- C21
\* The kinds of readable secondary body that hold no usable price.
NoUsableYield == {"notList", "empty", "noWellFormed", "nonPositive"}

\* C21. With a credential, a successful secondary response that holds no usable
\* price (no list of prices, an empty list, no well-formed entry, or a nearest
\* entry with a price of zero or less) raises no error: the execution goes on
\* to the candle call, and its outcome is then the candle path's alone.
C21_SecondaryFallsBack ==
    /\ loc.histYield # "none" => (apiKey /\ loc.histStatus \in 200..299)
    /\ loc.histYield \in NoUsableYield =>
          /\ loc.calls = <<"current", "historical", "candles">>
          /\ exec.pc \in {"fetchCandles", "threw"}
          /\ exec.pc = "fetchCandles" => (exec.error = Null /\ exec.result = Null)
          /\ exec.pc = "threw" => exec.error = FetchFailed
          /\ (~loc.historicalPrice.isNum) \/ loc.historicalPrice.v <= 0
    /\ loc.histYield = "usable" =>
          /\ exec.pc = "returned"
          /\ loc.calls = <<"current", "historical">>
    /\ (exec.pc = "fetchCandles" /\ loc.histStatus \in 200..299) =>
          loc.histYield \in NoUsableYield
    /\ (exec.pc = "returned" /\ loc.histStatus \in 200..299
          /\ "candles" \in Range(loc.calls)) =>
          /\ seen.usable
          /\ loc.historicalPrice = seen.nearest
          /\ IsNearestInteger(exec.result.historicalPriceUsd, seen.nearest.v)

\* The secondary API answered 200 with a list whose nearest entry has the
\* price 0, and the execution now awaits the candle call.
C21_Witness ==
    /\ apiKey
    /\ exec.pc = "fetchCandles"
    /\ loc.histStatus = 200
    /\ loc.histYield = "nonPositive"
    /\ loc.calls = <<"current", "historical", "candles">>

\* ---------------------------------------------------------------- C22
\* Every caller of a failed refresh that has its response holds the 502 with
\* that failure, whatever is stored; what is stored was already expired when
\* the caller arrived.
C22_State ==
    \A c \in Callers :
        (req[c].pc = "done" /\ req[c].awaited # 0 /\ exec.pc = "rejected") =>
            /\ req[c].res.status = 502
            /\ req[c].res.body = [error |-> exec.error]
            /\ cachedValue # Null =>
                  /\ req[c].res.body # cachedValue.payload
                  /\ req[c].now - cachedValue.cachedAtMs >= CACHE_TTL_SECONDS * 1000

\* From the start of an execution to its failure and beyond, no step changes
\* the cache: only the step that ends a successful execution does.
C22_Step ==
    exec.pc \in (Suspended \cup {"threw", "iifeRejected", "rejected"}) =>
        cachedValue' = cachedValue

\* C22. A failed execution leaves the cache as it was when the refresh started,
\* empty or with the expired payload and its timestamp, and the callers of that
\* refresh get 502: the expired payload is not served in place of the failure.
C22_FailureFrame == []C22_State /\ [][C22_Step]_vars

\* Both callers of a failed refresh hold 502 while an expired payload is stored.
C22_Witness ==
    /\ exec.pc = "rejected"
    /\ cachedValue # Null
    /\ clock - cachedValue.cachedAtMs >= CACHE_TTL_SECONDS * 1000
    /\ \A c \in Callers : req[c].pc = "done" /\ req[c].res.status = 502

\* ---------------------------------------------------------------- C23
\* C23. Every 200 response carries the payload of an entry that was stored less
\* than the TTL before its call arrived (a hit) or that was stored, on
\* completion of the execution that produced it, no earlier than its call
\* arrived (a miss); no response carries a payload whose timestamp lies the TTL
\* or more before the arrival of its call.
C23_BoundedStaleness ==
    \A c \in Callers :
        (req[c].pc = "done" /\ req[c].res.status = 200) =>
            /\ cachedValue # Null
            /\ req[c].res.body = cachedValue.payload
            /\ req[c].res.xCache = "HIT" =>
                  /\ cachedValue.cachedAtMs <= req[c].now
                  /\ req[c].now - cachedValue.cachedAtMs < CACHE_TTL_SECONDS * 1000
            /\ req[c].res.xCache = "MISS" =>
                  /\ exec.pc = "fulfilled" /\ req[c].awaited = exec.id
                  /\ cachedValue.cachedAtMs >= req[c].now
            /\ req[c].now - cachedValue.cachedAtMs < CACHE_TTL_SECONDS * 1000

\* A caller arrived when the first entry had expired and holds the payload of
\* the second execution, stored no earlier than it arrived.
C23_Witness ==
    /\ exec.id = 2 /\ exec.pc = "fulfilled" /\ ~everFailed
    /\ \E c \in Callers :
          /\ req[c].pc = "done" /\ req[c].res.status = 200
          /\ req[c].res.xCache = "MISS"
          /\ req[c].now >= CACHE_TTL_SECONDS * 1000
          /\ cachedValue.cachedAtMs >= req[c].now
          /\ req[c].res.body = cachedValue.payload

====
